---- MODULE Spec2Model ----
(***************************************************************************)
(* A model of src/src/licenses.ts: the PackageAnalyzer class and main.     *)
(*                                                                         *)
(* Strings that the code takes apart (version ranges, version numbers) are *)
(* sequences of one-character strings, so that _cleanVersion, split('.')   *)
(* and Number are modelled by what they do to the characters.  Strings the *)
(* code only copies, compares or uses as keys (package names, licenses,    *)
(* authors) are TLA+ strings.                                              *)
(***************************************************************************)
EXTENDS Integers, Sequences, FiniteSets, TLC

(***************************************************************************)
(* JavaScript values                                                       *)
(***************************************************************************)

\* A JavaScript value that is either a string or undefined.  Both shapes
\* carry the same fields so that any two values can be compared.
JsStr(s) == [t |-> "str", s |-> s]

JsUndefinedText == [t |-> "undef", s |-> <<>>]

\* A JavaScript number: an integer or NaN.
JsNum(n) == [nan |-> FALSE, v |-> n]

JsNaN == [nan |-> TRUE, v |-> 0]

\* `x || 0` for a number or undefined x: NaN, 0 and undefined give 0.
OrZero(x) == IF x.nan \/ x.v = 0 THEN 0 ELSE x.v

DigitChars == <<"0", "1", "2", "3", "4", "5", "6", "7", "8", "9">>

IsDigit(c) == \E i \in 1..10 : DigitChars[i] = c

DigitVal(c) == (CHOOSE i \in 1..10 : DigitChars[i] = c) - 1

\* The decimal digits of a non-negative integer, as characters.
RECURSIVE DigitsOf(_)
DigitsOf(n) ==
    IF n < 10 THEN <<DigitChars[n + 1]>>
    ELSE DigitsOf(n \div 10) \o <<DigitChars[(n % 10) + 1]>>

\* String.prototype.trim over the one white-space character of the model.
RECURSIVE TrimLeft(_)
TrimLeft(s) ==
    IF s # <<>> /\ Head(s) = " " THEN TrimLeft(Tail(s)) ELSE s

RECURSIVE TrimRight(_)
TrimRight(s) ==
    IF s # <<>> /\ s[Len(s)] = " " THEN TrimRight(SubSeq(s, 1, Len(s) - 1)) ELSE s

Trim(s) == TrimRight(TrimLeft(s))

\* String.prototype.split('.'): the pieces between the dots, empty pieces kept.
RECURSIVE SplitFrom(_, _, _)
SplitFrom(s, i, cur) ==
    IF i > Len(s) THEN <<cur>>
    ELSE IF s[i] = "." THEN <<cur>> \o SplitFrom(s, i + 1, <<>>)
    ELSE SplitFrom(s, i + 1, Append(cur, s[i]))

SplitDots(s) == SplitFrom(s, 1, <<>>)

RECURSIVE DecimalValue(_, _)
DecimalValue(s, acc) ==
    IF s = <<>> THEN acc ELSE DecimalValue(Tail(s), acc * 10 + DigitVal(Head(s)))

AllDigits(s) == s # <<>> /\ \A i \in 1..Len(s) : IsDigit(s[i])

\* Number(text) for the characters of the model: white space is trimmed, the
\* empty string is 0, an optionally signed run of decimal digits is its value,
\* and every other text is NaN.  It never throws.
ToNumber(text) ==
    LET s == Trim(text) IN
    IF s = <<>> THEN JsNum(0)
    ELSE IF AllDigits(s) THEN JsNum(DecimalValue(s, 0))
    ELSE IF Head(s) = "+" /\ AllDigits(Tail(s)) THEN JsNum(DecimalValue(Tail(s), 0))
    ELSE IF Head(s) = "-" /\ AllDigits(Tail(s)) THEN JsNum(0 - DecimalValue(Tail(s), 0))
    ELSE JsNaN

(***************************************************************************)
(* Version comparison                                                      *)
(***************************************************************************)

OperatorChars == {"^", "~", ">", "=", "<"}

\* version.replace(/^[\^~>=<]/, '').trim(): at most ONE leading operator
\* character is removed.
CleanVersion(version) ==
    Trim(IF version # <<>> /\ Head(version) \in OperatorChars
         THEN Tail(version) ELSE version)

\* installed.split('.').map(Number)
NumberParts(text) ==
    LET pieces == SplitDots(text) IN [i \in 1..Len(pieces) |-> ToNumber(pieces[i])]

\* parts[i] || 0, where parts[i] is undefined past the end of the array.
PartOrZero(parts, i) == IF i > Len(parts) THEN 0 ELSE OrZero(parts[i])

Max(a, b) == IF a >= b THEN a ELSE b

\* The for loop of _isVersionOutdated from position i on.
RECURSIVE CompareFrom(_, _, _)
CompareFrom(installedParts, latestParts, i) ==
    IF i > Max(Len(installedParts), Len(latestParts)) THEN FALSE
    ELSE IF PartOrZero(installedParts, i) < PartOrZero(latestParts, i) THEN TRUE
    ELSE IF PartOrZero(installedParts, i) > PartOrZero(latestParts, i) THEN FALSE
    ELSE CompareFrom(installedParts, latestParts, i + 1)

\* The same loop, but stopping at the end of the shorter array.
RECURSIVE CompareFromShort(_, _, _)
CompareFromShort(installedParts, latestParts, i) ==
    IF i > Len(installedParts) \/ i > Len(latestParts) THEN FALSE
    ELSE IF PartOrZero(installedParts, i) < PartOrZero(latestParts, i) THEN TRUE
    ELSE IF PartOrZero(installedParts, i) > PartOrZero(latestParts, i) THEN FALSE
    ELSE CompareFromShort(installedParts, latestParts, i + 1)

IsVersionOutdatedShort(installed, latest) ==
    IF latest.t = "undef" THEN FALSE
    ELSE CompareFromShort(NumberParts(installed), NumberParts(latest.s), 1)

\* _isVersionOutdated(installed, latest).  `installed` is a string; `latest`
\* is packageInfo.version, a string or undefined.  latest.split throws on
\* undefined, and the catch returns false; nothing else in the body throws.
IsVersionOutdated(installed, latest) ==
    IF latest.t = "undef" THEN FALSE
    ELSE CompareFrom(NumberParts(installed), NumberParts(latest.s), 1)

(***************************************************************************)
(* Package names, manifests and the registry                               *)
(***************************************************************************)

\* The package names of the model, in the order localeCompare gives them
\* (punctuation before letters, letters alphabetically).
NameOrder ==
    <<"@types/node", "a", "b", "c", "d", "e", "f", "g", "h", "i", "j", "k",
      "l", "m", "n", "o", "p", "q", "r", "s", "t", "tsx", "typescript", "u", "v",
      "w">>

NameRank(name) == CHOOSE i \in 1..Len(NameOrder) : NameOrder[i] = name

\* a.localeCompare(b): negative, zero or positive.
LocaleCompare(a, b) == NameRank(a) - NameRank(b)

\* Version ranges as the manifests of the model write them.
V_Caret1 == <<"^", "1", ".", "0", ".", "0">>
V_Tilde2 == <<"~", "2", ".", "1", ".", "0">>
V_Caret20 == <<"^", "2", "0", ".", "0", ".", "0">>
V_Caret4 == <<"^", "4", ".", "0", ".", "0">>
V_Caret5 == <<"^", "5", ".", "0", ".", "0">>

\* Published versions as the registry of the model answers them.
L_1_0_0 == <<"1", ".", "0", ".", "0">>
L_1_10_0 == <<"1", ".", "1", "0", ".", "0">>
L_24_3_0 == <<"2", "4", ".", "3", ".", "0">>
L_4_20_5 == <<"4", ".", "2", "0", ".", "5">>
L_5_9_2 == <<"5", ".", "9", ".", "2">>

\* One group of a parsed manifest: absent, or an object whose entries are
\* listed in the order Object.entries enumerates them.  The keys of one
\* object are distinct.  (Names are never array-index-like here, so that
\* order is the order of the manifest text.)
NoGroup == [present |-> FALSE, entries |-> <<>>]

Group(entries) == [present |-> TRUE, entries |-> entries]

Entry(name, version) == [name |-> name, version |-> version]

\* What reading and parsing the manifest file gives: "unreadable" (readFile
\* or JSON.parse throws), "null" (the file holds the JSON value null), or an
\* object with up to three groups.
Manifest(deps, dev, peer) ==
    [kind |-> "object", dependencies |-> deps, devDependencies |-> dev,
     peerDependencies |-> peer]

UnreadableFile ==
    [kind |-> "unreadable", dependencies |-> NoGroup, devDependencies |-> NoGroup,
     peerDependencies |-> NoGroup]

NullFile ==
    [kind |-> "null", dependencies |-> NoGroup, devDependencies |-> NoGroup,
     peerDependencies |-> NoGroup]

\* The author field of a registry record: undefined, a string, an object
\* with a name, or an object without one.
AuthorUndefined == [t |-> "undef", s |-> ""]
AuthorString(s) == [t |-> "str", s |-> s]
AuthorObject(name) == [t |-> "obj", s |-> name]
AuthorObjectNoName == [t |-> "objNoName", s |-> ""]

\* The license field of a registry record: undefined or a string.
LicenseUndefined == [t |-> "undef", s |-> ""]
LicenseString(s) == [t |-> "str", s |-> s]

\* What one registry call gives: "error" (fetch throws, the status is not
\* ok, or the body is not JSON), "null" (the body is the JSON value null),
\* or "ok" with the fields of NpmPackageInfo the analysis reads.
FetchError ==
    [kind |-> "error", version |-> JsUndefinedText, license |-> LicenseUndefined,
     author |-> AuthorUndefined]

FetchNull ==
    [kind |-> "null", version |-> JsUndefinedText, license |-> LicenseUndefined,
     author |-> AuthorUndefined]

Info(version, license, author) ==
    [kind |-> "ok", version |-> version, license |-> license, author |-> author]

(***************************************************************************)
(* Building the analysis                                                   *)
(***************************************************************************)

\* The entries of one group as declarations of the given type; nothing when
\* the group is absent (the `if (packageJson.dependencies)` guards).
Declarations(group, type) ==
    IF group.present
    THEN [i \in 1..Len(group.entries) |->
            [name |-> group.entries[i].name, version |-> group.entries[i].version,
             type |-> type]]
    ELSE <<>>

\* A mutation of _extractDependencies: devDependencies before dependencies.
ExtractDependenciesDevFirst(packageJson) ==
    Declarations(packageJson.devDependencies, "devDependency")
        \o Declarations(packageJson.dependencies, "dependency")
        \o Declarations(packageJson.peerDependencies, "peerDependency")

\* _extractDependencies(packageJson)
ExtractDependencies(packageJson) ==
    Declarations(packageJson.dependencies, "dependency")
        \o Declarations(packageJson.devDependencies, "devDependency")
        \o Declarations(packageJson.peerDependencies, "peerDependency")

\* _formatAuthor(author): a string, or undefined when the author is an
\* object without a name.
FormatAuthor(author) ==
    IF author.t = "undef" \/ (author.t = "str" /\ author.s = "") THEN AuthorString("unknown")
    ELSE IF author.t = "str" THEN AuthorString(author.s)
    ELSE IF author.t = "obj" THEN AuthorString(author.s)
    ELSE AuthorUndefined

\* packageInfo.license || 'unknown'
LicenseOrUnknown(license) ==
    IF license.t = "undef" \/ license.s = "" THEN "unknown" ELSE license.s

\* The PackageAnalysis _analyzePackage returns for a registry record.  Only
\* the fields that report generation and rendering read are modelled.
AnalysisOf(dep, info) ==
    [name |-> dep.name,
     installedVersion |-> dep.version,
     latestVersion |-> info.version,
     license |-> LicenseOrUnknown(info.license),
     author |-> FormatAuthor(info.author),
     isOutdated |-> IsVersionOutdated(CleanVersion(dep.version), info.version),
     dependencyType |-> dep.type]

\* The text 'unknown' of the minimal entry's latestVersion.
UnknownText == <<"u", "n", "k", "n", "o", "w", "n">>

\* A mutation of the catch block: the failed package is recorded as outdated.
FailedEntryOutdated(dep) ==
    [name |-> dep.name,
     installedVersion |-> dep.version,
     latestVersion |-> JsStr(UnknownText),
     license |-> "unknown",
     author |-> AuthorString("unknown"),
     isOutdated |-> TRUE,
     dependencyType |-> dep.type]

\* The minimal entry the catch block of analyzePackageJson pushes.
FailedEntry(dep) ==
    [name |-> dep.name,
     installedVersion |-> dep.version,
     latestVersion |-> JsStr(UnknownText),
     license |-> "unknown",
     author |-> AuthorString("unknown"),
     isOutdated |-> FALSE,
     dependencyType |-> dep.type]

(***************************************************************************)
(* Report generation                                                       *)
(***************************************************************************)

\* A mutation of the counting loops: a key's first occurrence sets up its
\* entry without counting it.
TallyFromZero(keys) ==
    LET n == Len(keys)
        firsts == {i \in 1..n : \A j \in 1..(i - 1) : keys[j] # keys[i]}
        nth(k) == CHOOSE i \in firsts : Cardinality({j \in firsts : j <= i}) = k
    IN [k \in 1..Cardinality(firsts) |->
          [key |-> keys[nth(k)],
           count |-> Cardinality({j \in 1..n : keys[j] = keys[nth(k)]}) - 1]]

\* The Record<string, number> that the loop
\*     keys.forEach((key) => { rec[key] = (rec[key] || 0) + 1 })
\* builds from an empty object, as the list of its entries in property
\* order: one entry per distinct key, in the order the keys were first seen
\* (insertion order: no key of the model is array-index-like or the name of
\* a member of Object.prototype), counting the occurrences of the key.
Tally(keys) ==
    LET n == Len(keys)
        firsts == {i \in 1..n : \A j \in 1..(i - 1) : keys[j] # keys[i]}
        nth(k) == CHOOSE i \in firsts : Cardinality({j \in firsts : j <= i}) = k
    IN [k \in 1..Cardinality(firsts) |->
          [key |-> keys[nth(k)],
           count |-> Cardinality({j \in 1..n : keys[j] = keys[nth(k)]})]]

\* The license histogram of _generateReport: keyed by pkg.license || 'unknown'.
LicenseDistribution(pkgs) ==
    Tally([i \in 1..Len(pkgs) |->
             IF pkgs[i].license = "" THEN "unknown" ELSE pkgs[i].license])

\* if (pkg.author && pkg.author !== 'unknown')
CountsAsMaintainer(author) ==
    author.t = "str" /\ author.s # "" /\ author.s # "unknown"

\* The author counts of _generateReport.
MaintainerCount(pkgs) ==
    LET Counted(pkg) == CountsAsMaintainer(pkg.author)
        counted == SelectSeq(pkgs, Counted)
    IN Tally([i \in 1..Len(counted) |-> counted[i].author.s])

\* Array.prototype.sort with the comparator (a, b) => b - a on the counts:
\* the sort is stable, so entry i comes before entry j exactly when its
\* count is larger, or the counts are equal and i was before j.
CountPrecedes(entries, i, j) ==
    \/ entries[i].count > entries[j].count
    \/ entries[i].count = entries[j].count /\ i < j

SortByCountDesc(entries) ==
    LET n == Len(entries)
        position(i) == 1 + Cardinality({j \in 1..n : CountPrecedes(entries, j, i)})
    IN [k \in 1..n |-> entries[CHOOSE i \in 1..n : position(i) = k]]

Min(a, b) == IF a <= b THEN a ELSE b

TopCount == 10

\* A mutation of the top-maintainers pipeline: the slice is taken before
\* the sort.
TopMaintainersSliceFirst(pkgs) ==
    LET counts == MaintainerCount(pkgs)
        cut == SubSeq(counts, 1, Min(TopCount, Len(counts)))
        sorted == SortByCountDesc(cut)
    IN [i \in 1..Len(sorted) |-> [name |-> sorted[i].key, packages |-> sorted[i].count]]

\* Object.entries(maintainerCount).sort(...).slice(0, 10).map(...)
TopMaintainers(pkgs) ==
    LET counts == MaintainerCount(pkgs)
        sorted == SortByCountDesc(counts)
        first == SubSeq(sorted, 1, Min(TopCount, Len(sorted)))
    IN [i \in 1..Len(first) |-> [name |-> first[i].key, packages |-> first[i].count]]

\* _generateReport(): the report holds a reference to the _packages array
\* (its identity `ref`), not a copy of it.
GenerateReport(pkgs, ref) ==
    [totalPackages |-> Len(pkgs),
     outdatedPackages |-> Cardinality({i \in 1..Len(pkgs) : pkgs[i].isOutdated}),
     packagesWithSecurityIssues |-> 0,
     licenseDistribution |-> LicenseDistribution(pkgs),
     topMaintainers |-> TopMaintainers(pkgs),
     packages |-> ref]

(***************************************************************************)
(* Rendering                                                               *)
(***************************************************************************)

\* ((count / total) * 100).toFixed(1), in tenths of a percent; NaN when the
\* total is 0.
PercentTenths(count, total) ==
    IF total = 0 THEN JsNaN ELSE JsNum((2000 * count + total) \div (2 * total))

\* The packages named NameOrder[r], NameOrder[r + 1], ..., each name's
\* packages in the order they have in pkgs.
RECURSIVE NameBucketsFrom(_, _)
NameBucketsFrom(pkgs, r) ==
    IF r > Len(NameOrder) THEN <<>>
    ELSE LET Named(x) == x.name = NameOrder[r]
         IN SelectSeq(pkgs, Named) \o NameBucketsFrom(pkgs, r + 1)

\* report.packages.sort((a, b) => a.name.localeCompare(b.name)): the array
\* after the in-place sort.  The sort is stable, so the result lists the
\* names in localeCompare order and the packages of one name in the order
\* they had.
SortByName(pkgs) == NameBucketsFrom(pkgs, 1)

AuthorColumnWidth == 20

\* pkg.author.length > 20 ? pkg.author.substring(0, 20) + '...' : pkg.author
TruncatedAuthor(author) ==
    IF Len(author) > AuthorColumnWidth
    THEN SubSeq(author, 1, AuthorColumnWidth) \o "..." ELSE author

\* Reading pkg.author.length throws when the author is undefined.
AllRowsThrow(pkgs) == \E i \in 1..Len(pkgs) : pkgs[i].author.t = "undef"

\* A mutation of the outdated filter: the test is negated.
OutdatedIndexesNegated(pkgs) == {i \in 1..Len(pkgs) : ~pkgs[i].isOutdated}

\* report.packages.filter((p) => p.isOutdated), as positions.
OutdatedIndexes(pkgs) == {i \in 1..Len(pkgs) : pkgs[i].isOutdated}

\* The rows of the "Outdated Packages" table: one for each package the
\* filter keeps, in the order of report.packages before the rendering sort.
OutdatedRows(pkgs) ==
    LET keep == OutdatedIndexes(pkgs)
        nth(k) == CHOOSE i \in keep : Cardinality({j \in keep : j <= i}) = k
    IN [k \in 1..Cardinality(keep) |->
          [name |-> pkgs[nth(k)].name, installed |-> pkgs[nth(k)].installedVersion,
           latest |-> pkgs[nth(k)].latestVersion, type |-> pkgs[nth(k)].dependencyType]]

\* The text generateReportFile builds, section by section, for a report
\* whose packages array holds `pkgs` (unsorted) and `sorted` (after the sort).
ReportContent(report, pkgs, sorted) ==
    LET byCount == SortByCountDesc(report.licenseDistribution)
    IN [totalPackages |-> report.totalPackages,
        outdatedPackages |-> report.outdatedPackages,
        outdatedPercent |-> PercentTenths(report.outdatedPackages, report.totalPackages),
        licenses |-> [i \in 1..Len(byCount) |->
                        [license |-> byCount[i].key, count |-> byCount[i].count,
                         percent |-> PercentTenths(byCount[i].count, report.totalPackages)]],
        authors |-> report.topMaintainers,
        outdated |-> OutdatedRows(pkgs),
        all |-> [i \in 1..Len(sorted) |->
                    [name |-> sorted[i].name, installed |-> sorted[i].installedVersion,
                     latest |-> sorted[i].latestVersion, license |-> sorted[i].license,
                     author |-> TruncatedAuthor(sorted[i].author.s),
                     outdated |-> sorted[i].isOutdated]]]

NoContent ==
    [totalPackages |-> 0, outdatedPackages |-> 0, outdatedPercent |-> JsNaN,
     licenses |-> <<>>, authors |-> <<>>, outdated |-> <<>>, all |-> <<>>]

(***************************************************************************)
(* Inputs: manifest files and registry answers                             *)
(***************************************************************************)

\* The most dependencies a small manifest declares, the most calls of
\* analyzePackageJson a module client makes, and the size of each group of
\* the long manifest (three groups of LongGroupSize pass 50 requests).
MaxDeps == 2
MaxRuns == 2
LongGroupSize == 17

MaxRequestsPerMinute == 50
RateLimitPauseMs == 60000
RequestPauseMs == 100

SmallEntries == {Entry("a", V_Caret1), Entry("b", V_Tilde2)}

\* The entry lists of one small group: distinct keys, in either order.
SmallGroupEntries ==
    {<<>>} \cup {<<e>> : e \in SmallEntries}
           \cup {es \in {<<e, f>> : e \in SmallEntries, f \in SmallEntries} :
                    es[1].name # es[2].name}

SmallGroups == {NoGroup} \cup {Group(es) : es \in SmallGroupEntries}

SmallManifests ==
    {m \in {Manifest(d, v, p) : d \in SmallGroups, v \in SmallGroups, p \in SmallGroups} :
        Len(m.dependencies.entries) + Len(m.devDependencies.entries)
            + Len(m.peerDependencies.entries) <= MaxDeps}

\* The manifest of the end-to-end scenario of the sample report.
ScenarioManifest ==
    Manifest(NoGroup,
             Group(<<Entry("@types/node", V_Caret20), Entry("tsx", V_Caret4),
                     Entry("typescript", V_Caret5)>>),
             NoGroup)

LongNames ==
    <<"c", "d", "e", "f", "g", "h", "i", "j", "k", "l", "m", "n", "o", "p", "q",
      "r", "s", "t", "u">>

LongIndex(name) == CHOOSE i \in 1..Len(LongNames) : LongNames[i] = name

LongGroup == Group([i \in 1..LongGroupSize |-> Entry(LongNames[i], V_Caret1)])

\* A manifest that declares the same LongGroupSize packages in all three groups.
LongManifest == Manifest(LongGroup, LongGroup, LongGroup)

\* The files a run of main may be given, and those a module client passes.
MainFiles ==
    {UnreadableFile, NullFile, ScenarioManifest, LongManifest} \cup SmallManifests

ModuleFiles ==
    {UnreadableFile,
     Manifest(Group(<<Entry("v", V_Caret1)>>), NoGroup, NoGroup),
     Manifest(Group(<<Entry("w", V_Tilde2)>>), Group(<<Entry("v", V_Caret1)>>), NoGroup)}

FilesOf(who) == IF who = "main" THEN MainFiles ELSE ModuleFiles

SmallAnswers ==
    {FetchError, FetchNull,
     Info(JsStr(L_1_10_0), LicenseString("MIT"), AuthorString("Ann")),
     Info(JsStr(L_1_0_0), LicenseUndefined, AuthorUndefined),
     Info(JsUndefinedText, LicenseString(""), AuthorObject("Contributors of the project")),
     Info(JsStr(L_1_0_0), LicenseString("ISC"), AuthorObjectNoName)}

LongAuthors ==
    <<"A01", "A02", "A03", "A04", "A05", "A06", "A07", "A08", "A09", "A10",
      "A11", "A12">>

\* The author of the i-th long package: the first twelve packages have
\* twelve authors, and the later packages repeat the last five of them.
LongAuthor(i) ==
    IF i <= Len(LongAuthors) THEN LongAuthors[i]
    ELSE LongAuthors[8 + ((i - Len(LongAuthors) - 1) % 5)]

\* The long package whose third request is request number 50.
FallibleLongIndex == MaxRequestsPerMinute - 2 * LongGroupSize

\* The answers the registry may give for a package.
Registry(name) ==
    IF name \in {"a", "b"} THEN SmallAnswers
    ELSE IF name \in {"v", "w"}
         THEN {FetchError, Info(JsStr(L_1_10_0), LicenseString("MIT"), AuthorString("Ann"))}
    ELSE IF name = "@types/node"
         THEN {FetchError, Info(JsStr(L_24_3_0), LicenseString("MIT"), AuthorUndefined)}
    ELSE IF name = "tsx"
         THEN {FetchError, Info(JsStr(L_4_20_5), LicenseString("MIT"),
                                AuthorString("Hiroki Osame"))}
    ELSE IF name = "typescript"
         THEN {FetchError, Info(JsStr(L_5_9_2), LicenseString("Apache-2.0"),
                                AuthorString("Microsoft Corp."))}
    ELSE {Info(JsStr(IF LongIndex(name) % 2 = 0 THEN L_1_0_0 ELSE L_1_10_0),
               (IF LongIndex(name) % 3 = 0 THEN LicenseString("ISC")
                ELSE IF LongIndex(name) % 3 = 1 THEN LicenseString("MIT")
                ELSE LicenseUndefined),
               AuthorString(LongAuthor(LongIndex(name))))}
         \cup (IF LongIndex(name) = FallibleLongIndex THEN {FetchError} ELSE {})

(***************************************************************************)
(* The state                                                               *)
(***************************************************************************)

VARIABLES
    client,        \* "main": the file is run as a script; "module": it is imported
    pc,            \* where the client is: ready, loop, returned, written, caught, exited
    runs,          \* the calls of analyzePackageJson made so far
    heap,          \* the arrays allocated so far, by identity
    packages,      \* this._packages: the identity of an array of the heap
    requestCount,  \* this._requestCount
    packageJson,   \* the parsed manifest of the call in progress, or of the last one
    allDeps,       \* the declaration list of the call in progress, or of the last one
    processed,     \* the loop counter of analyzePackageJson
    calls,         \* the registry calls of that call: name, number, answer, pauses
    reports,       \* the reports returned to the client, oldest first
    rendered,      \* for each report, whether generateReportFile has been given it
    outFile,       \* the content of the output file
    written,       \* whether the output file has been written
    thrown,        \* the last exception that reached the client
    stderr,        \* what console.error has printed
    exitCode,      \* the exit code of the process, -1 while it runs
    comparison     \* the version comparison at hand (version specification only)

vars ==
    <<client, pc, runs, heap, packages, requestCount, packageJson, allDeps, processed, calls,
      reports, rendered, outFile, written, thrown, stderr, exitCode, comparison>>

analyzerVars ==
    <<client, pc, runs, heap, packages, requestCount, packageJson, allDeps, processed, calls,
      reports, rendered, outFile, written, thrown, stderr, exitCode>>

NoComparison ==
    [op |-> <<>>, extra |-> <<>>, parts |-> <<>>, latest |-> <<>>, tag |-> <<>>,
     result |-> "idle"]

\* The analyzer as constructed (_packages = [], _requestCount = 0), before
\* the client has called anything.
Constructed ==
    /\ pc = "ready"
    /\ runs = 0
    /\ heap = << <<>> >>
    /\ packages = 1
    /\ requestCount = 0
    /\ packageJson = UnreadableFile
    /\ allDeps = <<>>
    /\ processed = 0
    /\ calls = <<>>
    /\ reports = <<>>
    /\ rendered = <<>>
    /\ outFile = NoContent
    /\ written = FALSE
    /\ thrown = "none"
    /\ stderr = <<>>
    /\ exitCode = -1

Init ==
    /\ client \in {"main", "module"}
    /\ Constructed
    /\ comparison = NoComparison

(***************************************************************************)
(* The operations                                                          *)
(***************************************************************************)

\* A mutation of `this._packages = []`: the array is emptied in place.
ResetPackagesInPlace(h, ref) == [heap |-> [h EXCEPT ![ref] = <<>>], ref |-> ref]

\* this._packages = []: a new array is allocated and the field points to it.
ResetPackages(h, ref) == [heap |-> Append(h, <<>>), ref |-> Len(h) + 1]

\* The pauses of the try block after a call that succeeded as request n.
PausesAfter(n) ==
    (IF n % MaxRequestsPerMinute = 0 THEN <<RateLimitPauseMs>> ELSE <<>>)
        \o <<RequestPauseMs>>

\* analyzePackageJson up to its loop: read and parse the manifest, extract
\* the declarations, start a new package list.  A manifest that cannot be
\* read or parsed, or that is null, makes the call throw before any of that.
AnalyzeStart ==
    /\ \/ pc = "ready"
       \/ client = "module" /\ pc = "returned"
    /\ runs < (IF client = "main" THEN 1 ELSE MaxRuns)
    /\ \E file \in FilesOf(client) :
        /\ runs' = runs + 1
        /\ IF file.kind # "object"
           THEN /\ thrown' = "manifest"
                /\ pc' = IF client = "main" THEN "caught" ELSE "ready"
                /\ UNCHANGED <<heap, packages, packageJson, allDeps, processed, calls>>
           ELSE /\ thrown' = "none"
                /\ pc' = "loop"
                /\ packageJson' = file
                /\ allDeps' = ExtractDependencies(file)
                /\ heap' = ResetPackages(heap, packages).heap
                /\ packages' = ResetPackages(heap, packages).ref
                /\ processed' = 0
                /\ calls' = <<>>
    /\ UNCHANGED <<client, requestCount, reports, rendered, outFile, written, stderr,
                   exitCode, comparison>>

\* One iteration of the for loop of analyzePackageJson: _analyzePackage
\* counts the request and calls the registry; on success the analysis is
\* pushed and the pauses of the try block follow; on failure the catch block
\* pushes the minimal entry.
FetchStep ==
    /\ pc = "loop"
    /\ processed < Len(allDeps)
    /\ \E answer \in Registry(allDeps[processed + 1].name) :
        LET dep == allDeps[processed + 1]
            n == requestCount + 1
            ok == answer.kind = "ok"
        IN /\ processed' = processed + 1
           /\ requestCount' = n
           /\ heap' = [heap EXCEPT ![packages] =
                          Append(@, IF ok THEN AnalysisOf(dep, answer) ELSE FailedEntry(dep))]
           /\ calls' = Append(calls, [name |-> dep.name, n |-> n, failed |-> ~ok,
                                      answer |-> answer,
                                      pauses |-> IF ok THEN PausesAfter(n) ELSE <<>>])
           /\ stderr' = IF ok THEN stderr ELSE Append(stderr, "Error analyzing")
    /\ UNCHANGED <<client, pc, runs, packages, packageJson, allDeps, reports, rendered,
                   outFile, written, thrown, exitCode, comparison>>

\* The end of analyzePackageJson: return this._generateReport().
AnalyzeReturn ==
    /\ pc = "loop"
    /\ processed = Len(allDeps)
    /\ reports' = Append(reports, GenerateReport(heap[packages], packages))
    /\ rendered' = Append(rendered, FALSE)
    /\ pc' = "returned"
    /\ UNCHANGED <<client, runs, heap, packages, requestCount, packageJson, allDeps,
                   processed, calls, outFile, written, thrown, stderr, exitCode, comparison>>

\* generateReportFile(report, outputPath) for the k-th report the client
\* holds.  The packages array is sorted in place; building a row throws when
\* an author is undefined, and writeFileSync may throw.
GenerateReportFile ==
    /\ reports # <<>>
    /\ \/ pc = "returned"
       \/ client = "module" /\ pc = "ready"
    /\ \E k \in 1..Len(reports), diskOk \in BOOLEAN :
        LET report == reports[k]
            pkgs == heap[report.packages]
            sorted == SortByName(pkgs)
            ok == diskOk /\ ~AllRowsThrow(pkgs)
        IN /\ client = "main" => k = Len(reports)
           /\ heap' = [heap EXCEPT ![report.packages] = sorted]
           /\ rendered' = [rendered EXCEPT ![k] = TRUE]
           /\ outFile' = IF ok THEN ReportContent(report, pkgs, sorted) ELSE outFile
           /\ written' = (written \/ ok)
           /\ thrown' = IF ok THEN thrown ELSE "render"
           /\ pc' = IF client = "module" THEN pc ELSE IF ok THEN "written" ELSE "caught"
    /\ UNCHANGED <<client, runs, packages, requestCount, packageJson, allDeps, processed,
                   calls, reports, stderr, exitCode, comparison>>

\* main after generateReportFile: the summary is printed, main returns and
\* the process ends with exit code 0.
MainDone ==
    /\ client = "main"
    /\ pc = "written"
    /\ pc' = "exited"
    /\ exitCode' = 0
    /\ UNCHANGED <<client, runs, heap, packages, requestCount, packageJson, allDeps,
                   processed, calls, reports, rendered, outFile, written, thrown, stderr,
                   comparison>>

\* A mutation of the catch block of main: the error is printed but
\* process.exit(1) is missing, so the process ends with exit code 0.
MainCatchWithoutExit ==
    /\ client = "main"
    /\ pc = "caught"
    /\ pc' = "exited"
    /\ stderr' = Append(stderr, "Error during analysis")
    /\ exitCode' = 0
    /\ UNCHANGED <<client, runs, heap, packages, requestCount, packageJson, allDeps,
                   processed, calls, reports, rendered, outFile, written, thrown, comparison>>

\* The catch block of main: the error is printed and process.exit(1) ends
\* the process.
MainCatch ==
    /\ client = "main"
    /\ pc = "caught"
    /\ pc' = "exited"
    /\ stderr' = Append(stderr, "Error during analysis")
    /\ exitCode' = 1
    /\ UNCHANGED <<client, runs, heap, packages, requestCount, packageJson, allDeps,
                   processed, calls, reports, rendered, outFile, written, thrown, comparison>>

Next ==
    \/ AnalyzeStart
    \/ FetchStep
    \/ AnalyzeReturn
    \/ GenerateReportFile
    \/ MainDone
    \/ MainCatch

Spec == Init /\ [][Next]_vars

(***************************************************************************)
(* The version comparison on its own                                       *)
(***************************************************************************)

\* The most components a generated version has.
MaxParts == 3

ComponentValues == {0, 2, 10}

PartLists == UNION {[1..n -> ComponentValues] : n \in 1..MaxParts}

\* Dot-separated decimal integers.
RECURSIVE JoinDots(_)
JoinDots(parts) ==
    IF Len(parts) = 0 THEN <<>>
    ELSE IF Len(parts) = 1 THEN DigitsOf(parts[1])
    ELSE DigitsOf(parts[1]) \o <<".">> \o JoinDots(Tail(parts))

\* A comparison to make.  The installed range is written as `op`, then
\* `extra`, then the dotted `parts`; the latest version as the dotted
\* `latest`, then `tag`.  `op` is empty or one operator character, `extra`
\* is empty or a second operator character (as in ">=1.2.3"), `tag` is empty
\* or a pre-release tag (as in "1.0.0-b").
Comparison(op, extra, parts, latest, tag) ==
    [op |-> op, extra |-> extra, parts |-> parts, latest |-> latest, tag |-> tag,
     result |-> "pending"]

OneOperator == {<<c>> : c \in OperatorChars}

\* The comparisons the specification gives as examples.
ExampleComparisons ==
    {Comparison(<<>>, <<>>, <<1, 2, 3>>, <<1, 2, 3>>, <<>>),
     Comparison(<<>>, <<>>, <<1, 2>>, <<1, 2, 0>>, <<>>),
     Comparison(<<>>, <<>>, <<1, 9, 0>>, <<1, 10, 0>>, <<>>),
     Comparison(<<>>, <<>>, <<2, 0, 0>>, <<1, 99, 9>>, <<>>),
     Comparison(<<"^">>, <<>>, <<4, 0, 0>>, <<4, 20, 5>>, <<>>),
     Comparison(<<">">>, <<"=">>, <<1, 2, 3>>, <<1, 0, 0>>, <<>>),
     Comparison(<<">">>, <<"=">>, <<1, 2, 3>>, <<2, 0, 0>>, <<>>),
     Comparison(<<>>, <<>>, <<0, 9, 0>>, <<1, 0, 0>>, <<"-", "b">>)}

InstalledText(c) == c.op \o c.extra \o JoinDots(c.parts)

LatestText(c) == JoinDots(c.latest) \o c.tag

VersionInit ==
    /\ client = "module"
    /\ Constructed
    /\ \/ \E op \in {<<>>} \cup OneOperator, parts \in PartLists, latest \in PartLists :
            comparison = Comparison(op, <<>>, parts, latest, <<>>)
       \/ \E parts \in PartLists, latest \in PartLists :
            comparison = Comparison(<<>>, <<>>, parts, latest, <<"-", "b">>)
       \/ \E op \in {<<">">>, <<"<">>}, parts \in PartLists, latest \in PartLists :
            comparison = Comparison(op, <<"=">>, parts, latest, <<>>)
       \/ comparison \in ExampleComparisons

\* The isOutdated flag of _analyzePackage: _cleanVersion, then
\* _isVersionOutdated against the latest version.
CompareVersions ==
    /\ comparison.result = "pending"
    /\ comparison' =
        [comparison EXCEPT !.result =
            IF IsVersionOutdated(CleanVersion(InstalledText(comparison)),
                                 JsStr(LatestText(comparison)))
            THEN "outdated" ELSE "current"]
    /\ UNCHANGED analyzerVars

VersionNext == CompareVersions

VersionSpec == VersionInit /\ [][VersionNext]_vars

(***************************************************************************)
(* Properties                                                              *)
(***************************************************************************)

\* analyzePackageJson has returned and its report has not been rendered:
\* the packages of the last report are in the order they were pushed.
Returned == pc = "returned" /\ ~rendered[Len(reports)]

LastReport == reports[Len(reports)]

LastPackages == heap[LastReport.packages]

\* C1: a failed fetch does not stop the loop.  When analyzePackageJson
\* returns, every declared dependency has been requested, in order, and each
\* dependency whose fetch failed is in the report with its own name,
\* installed version and type, latestVersion "unknown", license "unknown",
\* author "unknown" and isOutdated false.
C1_FailedFetchIsRecorded ==
    Returned =>
        /\ Len(calls) = Len(allDeps)
        /\ \A i \in 1..Len(allDeps) : calls[i].name = allDeps[i].name
        /\ \A i \in 1..Len(calls) :
            calls[i].failed =>
                /\ i <= Len(LastPackages)
                /\ LastPackages[i].name = allDeps[i].name
                /\ LastPackages[i].installedVersion = allDeps[i].version
                /\ LastPackages[i].dependencyType = allDeps[i].type
                /\ LastPackages[i].latestVersion = JsStr(UnknownText)
                /\ LastPackages[i].license = "unknown"
                /\ LastPackages[i].author = AuthorString("unknown")
                /\ LastPackages[i].isOutdated = FALSE

\* A returned run in which a fetch failed and a later fetch succeeded.
C1_Witness ==
    /\ Returned
    /\ \E i \in 1..Len(calls), j \in 1..Len(calls) :
        i < j /\ calls[i].failed /\ ~calls[j].failed /\ LastPackages[j].isOutdated

\* C2: when analyzePackageJson returns, report.packages corresponds position
\* by position to the manifest's dependencies, then devDependencies, then
\* peerDependencies entries (name, version range, type), whether each fetch
\* succeeded or failed, and totalPackages is the number of manifest entries.
C2_PackagesFollowManifest ==
    Returned =>
        LET d == packageJson.dependencies.entries
            v == packageJson.devDependencies.entries
            p == packageJson.peerDependencies.entries
            At(i) == IF i <= Len(d) THEN <<d[i], "dependency">>
                     ELSE IF i <= Len(d) + Len(v) THEN <<v[i - Len(d)], "devDependency">>
                     ELSE <<p[i - Len(d) - Len(v)], "peerDependency">>
        IN /\ Len(LastPackages) = Len(d) + Len(v) + Len(p)
           /\ LastReport.totalPackages = Len(d) + Len(v) + Len(p)
           /\ \A i \in 1..Len(LastPackages) :
                /\ LastPackages[i].name = At(i)[1].name
                /\ LastPackages[i].installedVersion = At(i)[1].version
                /\ LastPackages[i].dependencyType = At(i)[2]

\* A returned run over a manifest that declares one name in two groups and
\* has a failed and a successful fetch.
C2_Witness ==
    /\ Returned
    /\ \E i \in 1..Len(LastPackages), j \in 1..Len(LastPackages) :
        /\ i < j
        /\ LastPackages[i].name = LastPackages[j].name
        /\ LastPackages[i].dependencyType # LastPackages[j].dependencyType
    /\ \E i \in 1..Len(calls) : calls[i].failed
    /\ \E i \in 1..Len(calls) : ~calls[i].failed

Finished(c) == c.result \in {"outdated", "current"}

\* The installed range is one optional operator character and dotted
\* integers, and the latest version is dotted integers.
WellFormed(c) == c.extra = <<>> /\ c.tag = <<>>

\* The reference comparison of two lists of integers: pad the shorter with
\* 0 and look at the first position where they differ.
ReferenceOutdated(installed, latest) ==
    LET n == Max(Len(installed), Len(latest))
        At(xs, i) == IF i <= Len(xs) THEN xs[i] ELSE 0
        differ == {i \in 1..n : At(installed, i) # At(latest, i)}
    IN /\ differ # {}
       /\ \A i \in differ :
            (\A j \in differ : i <= j) => At(installed, i) < At(latest, i)

IsExample(c, op, parts, latest) ==
    WellFormed(c) /\ c.op = op /\ c.parts = parts /\ c.latest = latest

\* C3: for an installed range of at most one leading operator character and
\* dotted non-negative integers, and a latest version of dotted non-negative
\* integers, isOutdated equals the reference comparison; in particular
\* "1.2.3" vs "1.2.3" and "1.2" vs "1.2.0" are not outdated, "1.9.0" vs
\* "1.10.0" is, "2.0.0" vs "1.99.9" is not, "^4.0.0" vs "4.20.5" is.
C3_MatchesReferenceComparison ==
    (Finished(comparison) /\ WellFormed(comparison)) =>
        /\ (comparison.result = "outdated")
              = ReferenceOutdated(comparison.parts, comparison.latest)
        /\ IsExample(comparison, <<>>, <<1, 2, 3>>, <<1, 2, 3>>)
              => comparison.result = "current"
        /\ IsExample(comparison, <<>>, <<1, 2>>, <<1, 2, 0>>)
              => comparison.result = "current"
        /\ IsExample(comparison, <<>>, <<1, 9, 0>>, <<1, 10, 0>>)
              => comparison.result = "outdated"
        /\ IsExample(comparison, <<>>, <<2, 0, 0>>, <<1, 99, 9>>)
              => comparison.result = "current"
        /\ IsExample(comparison, <<"^">>, <<4, 0, 0>>, <<4, 20, 5>>)
              => comparison.result = "outdated"

\* A range with an operator and fewer components than the latest version,
\* equal to it on the components it has, found outdated by a later one.
C3_Witness ==
    /\ Finished(comparison)
    /\ WellFormed(comparison)
    /\ comparison.op # <<>>
    /\ Len(comparison.parts) < Len(comparison.latest)
    /\ \A i \in 1..Len(comparison.parts) : comparison.parts[i] = comparison.latest[i]
    /\ comparison.result = "outdated"

\* C4: when a component of the installed version (after one operator
\* character is stripped) or of the latest version is not an integer, as in
\* ">=1.2.3" or a latest version with a pre-release tag, isOutdated is false.
C4_UnparsableIsNotOutdated ==
    (Finished(comparison) /\ ~WellFormed(comparison)) => comparison.result = "current"

Range(xs) == {xs[i] : i \in 1..Len(xs)}

\* C5: in the fetch loop the request counter goes up by exactly 1 for every
\* registry call, success or failure; after every call, whatever its
\* outcome, a 100 ms pause comes before the next call; and when the counter
\* after a call is divisible by 50, a 60 s pause comes before the next call.
C5_PausesAfterEveryCall ==
    \A i \in 1..Len(calls) :
        /\ i > 1 => calls[i].n = calls[i - 1].n + 1
        /\ i = Len(calls) => calls[i].n = requestCount
        /\ i < Len(calls) =>
            /\ RequestPauseMs \in Range(calls[i].pauses)
            /\ calls[i].n % MaxRequestsPerMinute = 0
                  => RateLimitPauseMs \in Range(calls[i].pauses)

\* What the loop does do: the counter part of C5 as claimed, and the pauses
\* after the calls that succeeded.
C5_PausesAfterSuccessfulCalls ==
    \A i \in 1..Len(calls) :
        /\ i > 1 => calls[i].n = calls[i - 1].n + 1
        /\ i = Len(calls) => calls[i].n = requestCount
        /\ ~calls[i].failed =>
            /\ RequestPauseMs \in Range(calls[i].pauses)
            /\ (calls[i].n % MaxRequestsPerMinute = 0)
                  = (RateLimitPauseMs \in Range(calls[i].pauses))
        /\ calls[i].failed => calls[i].pauses = <<>>

\* Request number 50 failed and another request followed it.
C5_FiftiethCallFailed ==
    \E i \in 1..Len(calls) :
        i < Len(calls) /\ calls[i].failed /\ calls[i].n = MaxRequestsPerMinute

RECURSIVE SumCounts(_)
SumCounts(entries) ==
    IF entries = <<>> THEN 0 ELSE Head(entries).count + SumCounts(Tail(entries))

CountOf(entries, key) ==
    IF \E i \in 1..Len(entries) : entries[i].key = key
    THEN (CHOOSE e \in Range(entries) : e.key = key).count
    ELSE 0

DistinctKeys(entries) ==
    \A i \in 1..Len(entries), j \in 1..Len(entries) :
        entries[i].key = entries[j].key => i = j

\* C6: in every report the counts of licenseDistribution sum to
\* totalPackages, every key's count is at least 1 and is the number of
\* packages with that license, and the failed fetches and the registry
\* records without a license are counted under "unknown".
C6_LicenseCountsAddUp ==
    /\ \A k \in 1..Len(reports) :
        LET pkgs == heap[reports[k].packages]
            dist == reports[k].licenseDistribution
        IN /\ SumCounts(dist) = reports[k].totalPackages
           /\ DistinctKeys(dist)
           /\ \A i \in 1..Len(dist) :
                /\ dist[i].count >= 1
                /\ dist[i].count
                     = Cardinality({j \in 1..Len(pkgs) : pkgs[j].license = dist[i].key})
    /\ pc = "returned" =>
        CountOf(LastReport.licenseDistribution, "unknown")
            = Cardinality({i \in 1..Len(calls) :
                             \/ calls[i].failed
                             \/ calls[i].answer.license.t = "undef"
                             \/ calls[i].answer.license.s = ""})

\* A returned run with a failed fetch, a record without a license and a
\* record with one.
C6_Witness ==
    /\ pc = "returned"
    /\ \E i \in 1..Len(calls) : calls[i].failed
    /\ \E i \in 1..Len(calls) : ~calls[i].failed /\ calls[i].answer.license.t = "undef"
    /\ \E i \in 1..Len(calls) : ~calls[i].failed /\ calls[i].answer.license.s = "MIT"

\* The authors of the packages that have one other than "unknown".
AuthorsOf(pkgs) ==
    {pkgs[i].author.s : i \in {j \in 1..Len(pkgs) :
                                 /\ pkgs[j].author.t = "str"
                                 /\ pkgs[j].author.s # ""
                                 /\ pkgs[j].author.s # "unknown"}}

PackagesBy(pkgs, name) ==
    Cardinality({i \in 1..Len(pkgs) : pkgs[i].author = AuthorString(name)})

FirstBy(pkgs, name) ==
    CHOOSE i \in 1..Len(pkgs) :
        /\ pkgs[i].author = AuthorString(name)
        /\ \A j \in 1..(i - 1) : pkgs[j].author # AuthorString(name)

\* C7: in every report topMaintainers has at most 10 entries, none named
\* "unknown", each with the number of packages of that author, in
\* descending order of that number, authors of equal number in the order
\* they were first met in the package list, and no author left out has more
\* packages than a listed one.
C7_TopMaintainers ==
    /\ \A k \in 1..Len(reports) :
        LET pkgs == heap[reports[k].packages]
            top == reports[k].topMaintainers
            listed == {top[i].name : i \in 1..Len(top)}
        IN /\ Len(top) <= TopCount
           /\ "unknown" \notin listed
           /\ \A i \in 1..Len(top), j \in 1..Len(top) : top[i].name = top[j].name => i = j
           /\ \A i \in 1..Len(top) : top[i].packages = PackagesBy(pkgs, top[i].name)
           /\ \A i \in 1..Len(top) : top[i].packages >= 1
           /\ \A i \in 1..(Len(top) - 1) : top[i].packages >= top[i + 1].packages
           /\ \A a \in AuthorsOf(pkgs) \ listed :
                \A i \in 1..Len(top) : PackagesBy(pkgs, a) <= top[i].packages
    /\ Returned =>
        LET top == LastReport.topMaintainers
        IN \A i \in 1..(Len(top) - 1) :
              top[i].packages = top[i + 1].packages
                 => FirstBy(LastPackages, top[i].name) < FirstBy(LastPackages, top[i + 1].name)

\* A report over more than ten authors: ten are listed, with ties among
\* them and different counts, and an author that is left out.
C7_Witness ==
    /\ Returned
    /\ Len(LastReport.topMaintainers) = TopCount
    /\ AuthorsOf(LastPackages)
          \ {LastReport.topMaintainers[i].name : i \in 1..TopCount} # {}
    /\ LastReport.topMaintainers[1].packages > LastReport.topMaintainers[TopCount].packages
    /\ LastReport.topMaintainers[1].packages = LastReport.topMaintainers[2].packages
    /\ \E i \in 1..Len(LastPackages) : LastPackages[i].author = AuthorString("unknown")

\* C8: in main, when the manifest cannot be read or parsed, no registry
\* request is made, generateReportFile is not called and no report file is
\* written, the error is printed and the process ends with a non-zero exit
\* code; the exit code is 0 only after the whole report has been written.
C8_ManifestFailureIsFatal ==
    client = "main" =>
        /\ thrown = "manifest" =>
            /\ requestCount = 0
            /\ calls = <<>>
            /\ reports = <<>>
            /\ \A k \in 1..Len(rendered) : ~rendered[k]
            /\ ~written
            /\ outFile = NoContent
            /\ exitCode # 0
            /\ pc \in {"caught", "exited"}
        /\ (thrown = "manifest" /\ pc = "exited") =>
            /\ exitCode = 1
            /\ stderr = <<"Error during analysis">>
        /\ exitCode = 0 =>
            /\ written
            /\ outFile.totalPackages = Len(allDeps)
            /\ Len(outFile.all) = Len(allDeps)

\* main has ended after a manifest that could not be read.
C8_Witness == client = "main" /\ thrown = "manifest" /\ pc = "exited"

\* C9: for the manifest with devDependencies @types/node ^20.0.0, tsx ^4.0.0
\* and typescript ^5.0.0 and latest versions 24.3.0, 4.20.5 and 5.9.2, all
\* fetched, the report has totalPackages 3 and outdatedPackages 3, and the
\* rendered outdated table has exactly three rows, one per package, each of
\* type "devDependency".
C9_SampleScenario ==
    (/\ packageJson = ScenarioManifest
     /\ reports # <<>>
     /\ \A i \in 1..Len(calls) : ~calls[i].failed) =>
        /\ LastReport.totalPackages = 3
        /\ LastReport.outdatedPackages = 3
        /\ written =>
            /\ outFile.totalPackages = 3
            /\ outFile.outdatedPackages = 3
            /\ Len(outFile.outdated) = 3
            /\ outFile.outdated[1] =
                 [name |-> "@types/node", installed |-> V_Caret20,
                  latest |-> JsStr(L_24_3_0), type |-> "devDependency"]
            /\ outFile.outdated[2] =
                 [name |-> "tsx", installed |-> V_Caret4,
                  latest |-> JsStr(L_4_20_5), type |-> "devDependency"]
            /\ outFile.outdated[3] =
                 [name |-> "typescript", installed |-> V_Caret5,
                  latest |-> JsStr(L_5_9_2), type |-> "devDependency"]

\* The sample scenario, all three fetched, with the report file written.
C9_Witness ==
    /\ packageJson = ScenarioManifest
    /\ Len(calls) = 3
    /\ \A i \in 1..Len(calls) : ~calls[i].failed
    /\ written

Occurrences(xs, x) == Cardinality({i \in 1..Len(xs) : xs[i] = x})

SameEntries(xs, ys) ==
    /\ Len(xs) = Len(ys)
    /\ \A x \in Range(xs) \cup Range(ys) : Occurrences(xs, x) = Occurrences(ys, x)

InNameOrder(pkgs) ==
    \A i \in 1..(Len(pkgs) - 1) : LocaleCompare(pkgs[i].name, pkgs[i + 1].name) <= 0

\* C10: generateReportFile changes a report only by reordering its packages
\* in place into name order, and nothing else changes a report once it has
\* been returned: in every step, each returned report keeps its totals, its
\* license distribution and its top maintainers, its packages array keeps
\* the same entries, and that array is either untouched or has just been
\* put in name order by generateReportFile; a later analyzePackageJson call
\* leaves it untouched.
C10_ReportsChangeOnlyByReordering ==
    [][\A k \in 1..Len(reports) :
          /\ Len(reports') >= Len(reports)
          /\ reports'[k] = reports[k]
          /\ SameEntries(heap'[reports[k].packages], heap[reports[k].packages])
          /\ \/ heap'[reports[k].packages] = heap[reports[k].packages]
             \/ /\ rendered'[k]
                /\ InNameOrder(heap'[reports[k].packages])
                /\ runs' = runs
                /\ processed' = processed]_vars

\* A module client holds a first report that generateReportFile has
\* reordered, and a second analyzePackageJson call has returned another.
C10_Witness ==
    /\ Len(reports) = 2
    /\ rendered[1]
    /\ Len(heap[reports[1].packages]) = 2
    /\ heap[reports[1].packages][1].dependencyType = "devDependency"
    /\ heap[reports[1].packages][2].dependencyType = "dependency"
    /\ reports[2].packages # reports[1].packages
    /\ reports[2].totalPackages >= 1
====
